---- MODULE Spec2Model ----
(***************************************************************************)
(* A state-machine model of src/CabBookingApp.jsx: the booking store, the  *)
(* identity provider as seen by each browser session, and per session the  *)
(* React state of useFirebase, useBookings, App, HomeView and the admin    *)
(* panel.  Every handler of the source is one action; an async handler is  *)
(* split at its await.                                                     *)
(***************************************************************************)
EXTENDS Integers, Sequences, FiniteSets, TLC

\* ------------------------------------------------------------------ bounds
MaxBookings == 1        \* documents handleBooking may add to the store
SeededDocs == 1         \* documents already stored when two admin sessions start
ListedDocs == 2         \* documents already stored when the projections are examined
MaxTimers == 2          \* estimate timers one HomeView may have pending at a time
MaxClock == 2           \* client clock readings new Date() may return: 1..MaxClock

\* Two browser sessions run the app against the one store.
Sessions == {1, 2}

\* ------------------------------------------------------- nullable values
Null == <<>>
Some(v) == <<v>>
IsNull(x) == x = <<>>
Val(x) == x[1]

\* --------------------------------------------------------------- strings
\* A location string is the sequence of its UTF-16 code units: "" is <<>>,
\* "A" is <<65>>, "F" is <<70>>.
EmptyStr == <<>>
StrA == <<65>>
StrF == <<70>>
Locations == {EmptyStr, StrA, StrF}

\* A decimal string produced by Number.prototype.toFixed: the integer part and
\* the digits after the point, read as a number.
DecStr(whole, frac) == [whole |-> whole, frac |-> frac]

\* n.toFixed(1) for an integer n: "n.0"
ToFixed1(n) == DecStr(n, 0)

\* parseFloat of a one-decimal string, in tenths
ParseFloatTenths(d) == d.whole * 10 + d.frac

\* (cents / 100).toFixed(2) for an integer number of cents
ToFixed2(cents) == DecStr(cents \div 100, cents % 100)

\* ------------------------------------------------------------ identities
ADMIN_EMAIL == "admin@cabapp.com"

\* The accounts the identity provider knows.  "tok" is the account of the
\* custom token (no email, not anonymous); "anon" is the anonymous identity.
Uids == {"adm", "u1", "tok", "anon"}
Registered == {"adm", "u1"}     \* accounts with an email and a password

Email(u) ==
    CASE u = "adm" -> ADMIN_EMAIL
      [] u = "u1" -> "u1@example.com"
      [] OTHER -> "null"

IsAnonymous(u) == u = "anon"

\* user && !user.isAnonymous
IsSignedIn(u) == u # "null" /\ ~IsAnonymous(u)

\* user?.email === 'admin@cabapp.com'
IsAdmin(u) == u # "null" /\ Email(u) = ADMIN_EMAIL

\* ------------------------------------------------------------ fare table
VehicleTypes == {"Cab", "Auto", "Bike", "Taxi"}

VEHICLE_RATES ==
    [Cab  |-> [base |-> 500, rate |-> 150],
     Auto |-> [base |-> 200, rate |-> 100],
     Bike |-> [base |-> 100, rate |-> 50],
     Taxi |-> [base |-> 600, rate |-> 180]]

\* s.split('').reduce((a, b) => ((a << 5) - a) + b.charCodeAt(0), 0).  For the
\* strings of Locations the accumulator stays far inside the 32-bit range, so
\* a << 5 is a * 32.
RECURSIVE HashFrom(_, _)
HashFrom(a, s) ==
    IF s = <<>> THEN a ELSE HashFrom(((a * 32) - a) + Head(s), Tail(s))

hash(s) == HashFrom(0, s)

Abs(x) == IF x < 0 THEN -x ELSE x

\* Math.abs(hash(pickup) - hash(dropoff)) % 20 + 5, then toFixed(1)
mockDistance(pickup, dropoff) ==
    ToFixed1((Abs(hash(pickup) - hash(dropoff)) % 20) + 5)

\* base + parseFloat(dist) * rate, in cents (the division by 100 is taken by
\* ToFixed2 when the timer formats the fare)
EstimateCents(dist, vehicleType) ==
    VEHICLE_RATES[vehicleType].base
        + (ParseFloatTenths(dist) * VEHICLE_RATES[vehicleType].rate) \div 10

\* -------------------------------------------------------------- statuses
Statuses == {"Pending", "Accepted", "Completed", "Canceled"}

\* A faulty variant: a Pending row also offers Completed, an Accepted row
\* also offers Pending.
AdminButtonsMut(status) ==
    (IF status = "Pending" THEN {"Accepted", "Completed"} ELSE {})
        \cup (IF status = "Accepted" THEN {"Completed", "Pending"} ELSE {})
        \cup (IF status # "Canceled" /\ status # "Completed" THEN {"Canceled"} ELSE {})

\* A faulty variant: a Pending row also offers Mark Completed.
AdminButtonsSkip(status) ==
    (IF status = "Pending" THEN {"Accepted", "Completed"} ELSE {})
        \cup (IF status = "Accepted" THEN {"Completed"} ELSE {})
        \cup (IF status # "Canceled" /\ status # "Completed" THEN {"Canceled"} ELSE {})

\* A faulty variant: a Completed row still offers the cancellation.
AdminButtonsTerminal(status) ==
    (IF status = "Pending" THEN {"Accepted"} ELSE {})
        \cup (IF status = "Accepted" THEN {"Completed"} ELSE {})
        \cup (IF status # "Canceled" THEN {"Canceled"} ELSE {})

\* The targets the admin table's row offers for a booking shown with `status`.
AdminButtons(status) ==
    (IF status = "Pending" THEN {"Accepted"} ELSE {})
        \cup (IF status = "Accepted" THEN {"Completed"} ELSE {})
        \cup (IF status # "Canceled" /\ status # "Completed" THEN {"Canceled"} ELSE {})

\* ------------------------------------------------------------------ store
\* `${value}` in a template literal: null is written as the text "null".
Interpolate(x) == IF IsNull(x) THEN [text |-> "null"] ELSE Val(x)

\* A faulty variant: the booking is created Accepted and paid.
newBookingMut(u, f, now) ==
    [userId |-> u,
     userEmail |-> IF Email(u) # "null" THEN Email(u) ELSE "Anonymous User",
     pickup |-> f.pickup,
     dropoff |-> f.dropoff,
     vehicleType |-> f.vehicleType,
     distance |-> <<Interpolate(f.distance), "km">>,
     fare |-> <<"$", Interpolate(f.fareEstimate)>>,
     dateTime |-> <<"ISO", f.when>>,
     status |-> "Accepted",
     createdAt |-> now,
     paymentStatus |-> "Completed"]

\* The booking document as handleBooking builds it.
newBooking(u, f, now) ==
    [userId |-> u,
     userEmail |-> IF Email(u) # "null" THEN Email(u) ELSE "Anonymous User",
     pickup |-> f.pickup,
     dropoff |-> f.dropoff,
     vehicleType |-> f.vehicleType,
     distance |-> <<Interpolate(f.distance), "km">>,
     fare |-> <<"$", Interpolate(f.fareEstimate)>>,
     dateTime |-> <<"ISO", f.when>>,
     status |-> "Pending",
     createdAt |-> now,
     paymentStatus |-> "Pending"]

\* addDoc: the store appends the document under a fresh id.
addDoc(st, data) == Append(st, [id |-> Len(st) + 1] @@ data)

\* A faulty variant: the update also marks the booking paid and takes it over.
updateDocMut(st, id, newStatus) ==
    [st EXCEPT ![id] = [st[id] EXCEPT !.status = newStatus, !.paymentStatus = "Completed",
                                      !.userId = "adm"]]

\* A faulty variant: a cancellation is stored under another label.
updateDocRejected(st, id, newStatus) ==
    [st EXCEPT ![id] = [st[id] EXCEPT
        !.status = IF newStatus = "Canceled" THEN "Rejected" ELSE newStatus]]

\* A faulty variant: the write is dropped unless the stored status is Pending.
updateDocVersioned(st, id, newStatus) ==
    IF st[id].status = "Pending" THEN [st EXCEPT ![id] = [st[id] EXCEPT !.status = newStatus]]
    ELSE st

\* updateDoc(docRef, { status: newStatus }): the named field is merged into the
\* existing document, every other field is kept.
updateDoc(st, id, newStatus) ==
    [st EXCEPT ![id] = [st[id] EXCEPT !.status = newStatus]]

\* A faulty variant: an update of a missing document resolves silently.
updateDocResultMut(st, id) == "ok"

\* How updateDoc settles when the store is reached: it rejects with not-found
\* for a document the collection does not hold.
updateDocResult(st, id) == IF id \in DOMAIN st THEN "ok" ELSE "NotFound"

\* ------------------------------------------------------------- snapshots
\* snapshot.docs.map(doc => ({ id, ...doc.data(), bookingDate: ...?.toDate() })):
\* no document has a bookingDate field, so the added field is undefined.
SnapshotDocs(docs) ==
    [i \in 1..Len(docs) |-> docs[i] @@ [bookingDate |-> "undefined"]]

\* A faulty variant: the comparator puts the oldest first.
compareMut(a, b) == a.createdAt - b.createdAt

\* The comparator of allBookings.sort: (a, b) => b.createdAt - a.createdAt
compare(a, b) == b.createdAt - a.createdAt

\* Array.prototype.sort is stable: x is placed after every element that the
\* comparator does not put after it.
RECURSIVE InsertSorted(_, _)
InsertSorted(x, sorted) ==
    IF sorted = <<>> THEN <<x>>
    ELSE IF compare(Head(sorted), x) <= 0
         THEN <<Head(sorted)>> \o InsertSorted(x, Tail(sorted))
         ELSE <<x>> \o sorted

RECURSIVE SortFrom(_, _)
SortFrom(acc, rest) ==
    IF rest = <<>> THEN acc ELSE SortFrom(InsertSorted(Head(rest), acc), Tail(rest))

\* allBookings.sort(...)
SortBookings(seq) == SortFrom(<<>>, seq)

\* A faulty variant: nothing is filtered out.
userBookingsMut(bs, u) == bs

\* A faulty variant: the new snapshot is added to what was held.
setBookingsMut(held, allBookings) == held \o allBookings

\* setBookings(allBookings): the state is replaced, whatever was held.
setBookings(held, allBookings) == allBookings

\* bookings.filter(b => b.userId === user.uid)
userBookings(bs, u) == SelectSeq(bs, LAMBDA b : b.userId = u)

\* ------------------------------------------------------------------ state
VARIABLES
    store,              \* the booking collection: a sequence of documents, id = index
    authUser,           \* per session: the provider's current identity, or "none"
    authNotify,         \* per session: an onAuthStateChanged notification is pending
    initialAuthToken,   \* whether the environment provides __initial_auth_token
    user,               \* per session: useFirebase's user state, or "null"
    isLoading,          \* per session: useFirebase's isLoading
    currentPage,        \* per session: App's currentPage
    form,               \* per session: HomeView's state
    timers,             \* per session: fares of the pending setTimeout callbacks
    pendingAdd,         \* per session: the addDoc awaited by handleBooking, or Null
    sub,                \* per session: the live onSnapshot listeners of useBookings,
                        \* each named by the userId its effect ran with
    snapDue,            \* per session: the store owes the listener a snapshot
    bookings,           \* per session: useBookings' bookings state
    isBookingsLoading,  \* per session: useBookings' isBookingsLoading
    lastOp              \* the latest operation (submit, add, update, snapshot):
                        \* the session, the document, the statuses requested
                        \* and found, the outcome, the identity it ran under
                        \* (the listener's userId for a snapshot), the session
                        \* whose write to the same document came right before
                        \* an update, and the order of the delivered documents

vars == <<store, authUser, authNotify, initialAuthToken, user, isLoading, currentPage,
          form, timers, pendingAdd, sub, snapDue, bookings, isBookingsLoading, lastOp>>

authVars == <<authUser, authNotify, user, isLoading>>
homeVars == <<form, timers, pendingAdd>>
subVars == <<sub, snapDue, bookings, isBookingsLoading>>

Times == {"T0", "T1"}

\* HomeView's state at mount (date and time start at the current moment, "T0")
InitForm ==
    [pickup |-> EmptyStr, dropoff |-> EmptyStr, vehicleType |-> "Cab", when |-> "T0",
     fareEstimate |-> Null, distance |-> Null, isEstimating |-> FALSE, error |-> "null"]

NoOp == [op |-> "none", s |-> 0, id |-> 0, target |-> "none", prev |-> "none",
         result |-> "none", key |-> "none", after |-> 0, docs |-> <<>>]

NoSub == {}

\* A faulty variant: the effect's cleanup releases nothing.
unsubscribeMut(listeners, k) == listeners

\* The cleanup of the effect of useBookings, () => unsubscribe(): the listener
\* the effect attached for userId k is released.
unsubscribe(listeners, k) == listeners \ {k}

\* onSnapshot(q, next, error) in the effect run with userId k
onSnapshot(listeners, k) == listeners \cup {k}

\* The app right after mount: useFirebase has initialised the store handle and
\* registered its auth listener, whose first notification is pending; the
\* provider of session 1 may hold an identity of authSet, persisted by an
\* earlier visit; useBookings has run with no userId (setBookings([]),
\* setIsBookingsLoading(false)).
Mounted(authSet, tokenSet) ==
    /\ authUser \in {[s \in Sessions |-> IF s = 1 THEN a ELSE "none"] : a \in authSet}
    /\ authNotify = [s \in Sessions |-> TRUE]
    /\ initialAuthToken \in tokenSet
    /\ user = [s \in Sessions |-> "null"]
    /\ isLoading = [s \in Sessions |-> TRUE]
    /\ currentPage = [s \in Sessions |-> "home"]
    /\ form = [s \in Sessions |-> InitForm]
    /\ timers = [s \in Sessions |-> <<>>]
    /\ pendingAdd = [s \in Sessions |-> Null]
    /\ sub = [s \in Sessions |-> NoSub]
    /\ snapDue = [s \in Sessions |-> FALSE]
    /\ bookings = [s \in Sessions |-> <<>>]
    /\ isBookingsLoading = [s \in Sessions |-> FALSE]
    /\ lastOp = NoOp

\* ------------------------------------------------------------ page changes
\* setCurrentPage(p).  renderPage mounts HomeView only on 'home': leaving it
\* unmounts HomeView, whose state is lost and whose pending callbacks (the
\* estimate timer, the continuation of handleBooking) then set nothing in it.
Unmounts(s, p) == currentPage[s] = "home" /\ p # "home"

setCurrentPage(s, p) ==
    /\ currentPage' = [currentPage EXCEPT ![s] = p]
    /\ form' = [form EXCEPT ![s] = IF Unmounts(s, p) THEN InitForm ELSE @]
    /\ timers' = [timers EXCEPT ![s] = IF Unmounts(s, p) THEN <<>> ELSE @]

DetachAdd(s, p) ==
    [pendingAdd EXCEPT ![s] =
        IF Unmounts(s, p) /\ ~IsNull(@) THEN Some([Val(@) EXCEPT !.mounted = FALSE]) ELSE @]

\* The pages the header offers to the locally held user (navItems, the logo and
\* the Login/Signup button).
NavTargets(u) ==
    {"home"}
        \cup (IF IsSignedIn(u) THEN {"dashboard"} ELSE {})
        \cup (IF IsAdmin(u) THEN {"admin"} ELSE {})
        \cup (IF ~IsSignedIn(u) THEN {"login"} ELSE {})

Navigate(s, p) ==
    /\ p \in NavTargets(user[s])
    /\ p # currentPage[s]
    /\ setCurrentPage(s, p)
    /\ pendingAdd' = DetachAdd(s, p)
    /\ UNCHANGED <<store, authVars, initialAuthToken, subVars, lastOp>>

\* ---------------------------------------------------------------- identity
\* setUser(u) in useFirebase, followed by the effect of useBookings when its
\* dependency userId changed: the cleanup of the previous run releases its
\* listener and a new one is attached, which the store owes a first snapshot.
\* bookings and isBookingsLoading are not reset.
setUser(s, u) ==
    /\ user' = [user EXCEPT ![s] = u]
    /\ IF u = user[s]
       THEN UNCHANGED <<sub, snapDue>>
       ELSE /\ sub' = [sub EXCEPT ![s] = onSnapshot(unsubscribe(@, user[s]), u)]
            /\ snapDue' = [snapDue EXCEPT ![s] = TRUE]
    /\ UNCHANGED <<bookings, isBookingsLoading>>

\* The listener of onAuthStateChanged.  ok is whether the sign-in it attempts
\* for a missing identity succeeds.
onAuthStateChanged(s, ok) ==
    /\ authNotify[s]
    /\ isLoading' = [isLoading EXCEPT ![s] = FALSE]
    /\ IF authUser[s] # "none"
       THEN /\ setUser(s, authUser[s])
            /\ authNotify' = [authNotify EXCEPT ![s] = FALSE]
            /\ UNCHANGED authUser
       ELSE IF ~ok
       THEN /\ authNotify' = [authNotify EXCEPT ![s] = FALSE]
            /\ UNCHANGED <<authUser, user, subVars>>
       ELSE IF initialAuthToken
       THEN \* signInWithCustomToken: the provider notifies the listener again
            /\ authUser' = [authUser EXCEPT ![s] = "tok"]
            /\ authNotify' = [authNotify EXCEPT ![s] = TRUE]
            /\ UNCHANGED <<user, subVars>>
       ELSE \* signInAnonymously, then setUser(result.user)
            /\ authUser' = [authUser EXCEPT ![s] = "anon"]
            /\ authNotify' = [authNotify EXCEPT ![s] = TRUE]
            /\ setUser(s, "anon")
    /\ UNCHANGED <<store, initialAuthToken, currentPage, homeVars, lastOp>>

\* LoginSignupView.handleSubmit, when the provider accepts the credentials of
\* account u.  The setUser it is given only logs; the identity reaches the app
\* through the auth listener.  (A rejected attempt sets only the view's own
\* error text.)
handleSubmit(s, u) ==
    /\ ~isLoading[s]
    /\ currentPage[s] = "login"
    /\ authUser' = [authUser EXCEPT ![s] = u]
    /\ authNotify' = [authNotify EXCEPT ![s] = TRUE]
    /\ setCurrentPage(s, "home")
    /\ UNCHANGED <<store, initialAuthToken, user, isLoading, pendingAdd, subVars, lastOp>>

\* Header.handleSignOut, when signOut succeeds (a failure is only logged).
handleSignOut(s) ==
    /\ IsSignedIn(user[s])
    /\ authUser' = [authUser EXCEPT ![s] = "none"]
    /\ authNotify' = [authNotify EXCEPT ![s] = TRUE]
    /\ setCurrentPage(s, "home")
    /\ pendingAdd' = DetachAdd(s, "home")
    /\ UNCHANGED <<store, initialAuthToken, user, isLoading, subVars, lastOp>>

\* ---------------------------------------------------------------- HomeView
HomeMounted(s) == ~isLoading[s] /\ currentPage[s] = "home"

setPickup(s, v) ==
    /\ HomeMounted(s)
    /\ v # form[s].pickup
    /\ form' = [form EXCEPT ![s].pickup = v]
    /\ UNCHANGED <<store, authVars, initialAuthToken, currentPage, timers, pendingAdd,
                   subVars, lastOp>>

setDropoff(s, v) ==
    /\ HomeMounted(s)
    /\ v # form[s].dropoff
    /\ form' = [form EXCEPT ![s].dropoff = v]
    /\ UNCHANGED <<store, authVars, initialAuthToken, currentPage, timers, pendingAdd,
                   subVars, lastOp>>

\* setDate / setTime
setDateTime(s, w) ==
    /\ HomeMounted(s)
    /\ w # form[s].when
    /\ form' = [form EXCEPT ![s].when = w]
    /\ UNCHANGED <<store, authVars, initialAuthToken, currentPage, timers, pendingAdd,
                   subVars, lastOp>>

\* The vehicle buttons: setVehicleType(type); setFareEstimate(null)
selectVehicle(s, type) ==
    /\ HomeMounted(s)
    /\ form' = [form EXCEPT ![s].vehicleType = type, ![s].fareEstimate = Null]
    /\ UNCHANGED <<store, authVars, initialAuthToken, currentPage, timers, pendingAdd,
                   subVars, lastOp>>

\* The state HomeView.handleEstimate leaves, and the timers it leaves pending.
EstimateForm(f) ==
    IF f.pickup = EmptyStr \/ f.dropoff = EmptyStr
    THEN [f EXCEPT !.error = "Please enter both pickup and drop-off locations.",
                   !.fareEstimate = Null]
    ELSE [f EXCEPT !.error = "null", !.isEstimating = TRUE,
                   !.distance = Some(mockDistance(f.pickup, f.dropoff))]

EstimateTimers(f, ts) ==
    IF f.pickup = EmptyStr \/ f.dropoff = EmptyStr
    THEN ts
    ELSE Append(ts, EstimateCents(mockDistance(f.pickup, f.dropoff), f.vehicleType))

\* The Estimate Fare button: disabled={isEstimating || !pickup || !dropoff}
EstimateEnabled(f) ==
    ~f.isEstimating /\ f.pickup # EmptyStr /\ f.dropoff # EmptyStr

handleEstimate(s) ==
    /\ HomeMounted(s)
    /\ EstimateEnabled(form[s])
    /\ Len(timers[s]) < MaxTimers
    /\ form' = [form EXCEPT ![s] = EstimateForm(@)]
    /\ timers' = [timers EXCEPT ![s] = EstimateTimers(form[s], @)]
    /\ UNCHANGED <<store, authVars, initialAuthToken, currentPage, pendingAdd, subVars, lastOp>>

\* The callback of setTimeout(..., 500): setFareEstimate(fare.toFixed(2));
\* setIsEstimating(false)
estimateTimeout(s) ==
    /\ timers[s] # <<>>
    /\ form' = [form EXCEPT ![s].fareEstimate = Some(ToFixed2(Head(timers[s]))),
                            ![s].isEstimating = FALSE]
    /\ timers' = [timers EXCEPT ![s] = Tail(@)]
    /\ UNCHANGED <<store, authVars, initialAuthToken, currentPage, pendingAdd, subVars, lastOp>>

\* A faulty variant: the inputs are not required.
BookNowEnabledMut(f) == ~IsNull(f.fareEstimate) /\ ~f.isEstimating

\* The form submits through Book Now (disabled={!fareEstimate || isEstimating})
\* and only when its required inputs pickup and dropoff are filled.
BookNowEnabled(f) ==
    /\ ~IsNull(f.fareEstimate)
    /\ ~f.isEstimating
    /\ f.pickup # EmptyStr
    /\ f.dropoff # EmptyStr

\* Documents in the store or on their way to it.
InFlight == Cardinality({t \in Sessions : ~IsNull(pendingAdd[t])})

\* A faulty variant: a missing fare does not stop the booking.
BookingExitMut(u, f) == IF ~IsSignedIn(u) THEN "login" ELSE "addDoc"

\* The way HomeView.handleBooking leaves: the redirect to the login page, the
\* estimate it starts for a missing fare, or the addDoc it awaits.
BookingExit(u, f) ==
    IF ~IsSignedIn(u) THEN "login"
    ELSE IF IsNull(f.fareEstimate) THEN "estimate"
    ELSE "addDoc"

\* HomeView.handleBooking up to its await of addDoc; now is the reading of
\* new Date().  At most one addDoc per session is awaited at a time.  lastOp
\* keeps the provider's identity at the time of the call and the exit taken.
handleBooking(s, now) ==
    /\ HomeMounted(s)
    /\ IF BookingExit(user[s], form[s]) = "login"
       THEN /\ setCurrentPage(s, "login")
            /\ pendingAdd' = DetachAdd(s, "login")
       ELSE IF BookingExit(user[s], form[s]) = "estimate"
       THEN /\ Len(timers[s]) < MaxTimers
            /\ form' = [form EXCEPT ![s] = EstimateForm(@)]
            /\ timers' = [timers EXCEPT ![s] = EstimateTimers(form[s], @)]
            /\ UNCHANGED <<currentPage, pendingAdd>>
       ELSE /\ IsNull(pendingAdd[s])
            /\ Len(store) + InFlight < MaxBookings
            /\ pendingAdd' = [pendingAdd EXCEPT ![s] =
                   Some([doc |-> newBooking(user[s], form[s], now), mounted |-> TRUE])]
            /\ UNCHANGED <<currentPage, form, timers>>
    /\ lastOp' = [NoOp EXCEPT !.op = "submit", !.s = s, !.key = authUser[s],
                              !.result = BookingExit(user[s], form[s])]
    /\ UNCHANGED <<store, authVars, initialAuthToken, subVars>>

\* Every live listener is owed a snapshot after a write.
OweSnapshots == [t \in Sessions |-> snapDue[t] \/ sub[t] # {}]

\* addDoc resolved: the document is in the store; the handler clears pickup,
\* dropoff, fareEstimate and distance and shows the dashboard, which unmounts
\* HomeView.
addDocResolved(s) ==
    /\ ~IsNull(pendingAdd[s])
    /\ store' = addDoc(store, Val(pendingAdd[s]).doc)
    /\ pendingAdd' = [pendingAdd EXCEPT ![s] = Null]
    /\ setCurrentPage(s, "dashboard")
    /\ snapDue' = OweSnapshots
    /\ lastOp' = [NoOp EXCEPT !.op = "add", !.s = s, !.id = Len(store) + 1, !.result = "ok"]
    /\ UNCHANGED <<authVars, initialAuthToken, sub, bookings, isBookingsLoading>>

\* A faulty variant: the catch block also clears the form.
BookingFailedMut(f) == [InitForm EXCEPT !.error = "Failed to create booking. Please try again."]

\* The catch block of handleBooking:
\* setError('Failed to create booking. Please try again.')
BookingFailed(f) == [f EXCEPT !.error = "Failed to create booking. Please try again."]

\* addDoc rejected: the catch block runs.  A HomeView unmounted while the write
\* was awaited has no state left for setError to set.
addDocRejected(s) ==
    /\ ~IsNull(pendingAdd[s])
    /\ pendingAdd' = [pendingAdd EXCEPT ![s] = Null]
    /\ form' = [form EXCEPT ![s] = IF Val(pendingAdd[s]).mounted THEN BookingFailed(@) ELSE @]
    /\ lastOp' = [NoOp EXCEPT !.op = "add", !.s = s, !.result = "error"]
    /\ UNCHANGED <<store, authVars, initialAuthToken, currentPage, timers, subVars>>

\* ------------------------------------------------------------- admin panel
\* AdminDashboardView renders its table for the admin email only, and only
\* once the bookings have loaded.
AdminTableShown(s) ==
    /\ ~isLoading[s]
    /\ currentPage[s] = "admin"
    /\ IsAdmin(user[s])
    /\ ~isBookingsLoading[s]

\* AdminDashboardView.handleUpdateStatus(id, newStatus), called by a button of
\* row i of the table; ok is whether the store is reached.  A rejection is
\* caught and alerted with its message.
handleUpdateStatus(s, i, newStatus, ok) ==
    /\ AdminTableShown(s)
    /\ i \in 1..Len(bookings[s])
    /\ newStatus \in AdminButtons(bookings[s][i].status)
    /\ LET id == bookings[s][i].id
           result == IF ok THEN updateDocResult(store, id) ELSE "error"
           written == result = "ok" /\ id \in DOMAIN store
       IN
       /\ store' = IF written THEN updateDoc(store, id, newStatus) ELSE store
       /\ snapDue' = IF written THEN OweSnapshots ELSE snapDue
       /\ lastOp' = [NoOp EXCEPT !.op = "update", !.s = s, !.id = id, !.target = newStatus,
                                 !.prev = IF id \in DOMAIN store THEN store[id].status
                                          ELSE "none",
                                 !.after = IF /\ lastOp.op = "update"
                                              /\ lastOp.result = "ok"
                                              /\ lastOp.id = id
                                           THEN lastOp.s ELSE 0,
                                 !.result = result]
    /\ UNCHANGED <<authVars, initialAuthToken, currentPage, homeVars, sub, bookings,
                   isBookingsLoading>>

\* -------------------------------------------------------------- useBookings
\* The store's documents in the order given by the permutation p.
Delivered(p) == [i \in 1..Len(store) |-> store[p[i]]]

\* The snapshot callback of onSnapshot: the store delivers its documents in
\* the order p.
onSnapshotNext(s, p) ==
    /\ snapDue[s]
    /\ bookings' = [bookings EXCEPT
           ![s] = setBookings(@, SortBookings(SnapshotDocs(Delivered(p))))]
    /\ isBookingsLoading' = [isBookingsLoading EXCEPT ![s] = FALSE]
    /\ snapDue' = [snapDue EXCEPT ![s] = FALSE]
    /\ \E k \in sub[s] :
           lastOp' = [NoOp EXCEPT !.op = "snapshot", !.s = s, !.result = "ok", !.key = k,
                                  !.docs = [i \in 1..Len(store) |-> p[i]]]
    /\ UNCHANGED <<store, authVars, initialAuthToken, currentPage, homeVars, sub>>

\* The error callback of onSnapshot; the listener delivers nothing afterwards.
onSnapshotError(s) ==
    /\ \E k \in sub[s] :
           /\ sub' = [sub EXCEPT ![s] = @ \ {k}]
           /\ lastOp' = [NoOp EXCEPT !.op = "snapshot", !.s = s, !.result = "error",
                                     !.key = k]
    /\ isBookingsLoading' = [isBookingsLoading EXCEPT ![s] = FALSE]
    /\ UNCHANGED <<store, authVars, initialAuthToken, currentPage, homeVars, snapDue, bookings>>

\* The error indicator a session shows: HomeView renders its error state; the
\* dashboards and useBookings have no error state to render.
ErrorShown(s) == HomeMounted(s) /\ form[s].error # "null"

\* What UserDashboardView lists for session s.
DashboardShown(s) == ~isLoading[s] /\ currentPage[s] = "dashboard" /\ IsSignedIn(user[s])

RiderList(s) == userBookings(bookings[s], user[s])

\* The rows of the admin table
AdminRows(s) == bookings[s]

\* ----------------------------------------------------------- specifications
Pages == {"home", "login", "dashboard", "admin"}

\* The store's own order of its documents
IdPerm == [i \in 1..Len(store) |-> i]

\* Session 1 alone, from mount: it signs in and out, fills the form with one
\* pickup and one dropoff, books, and works the admin panel.
Init == store = <<>> /\ Mounted({"none"}, {FALSE})

Next ==
    \/ \E ok \in BOOLEAN : onAuthStateChanged(1, ok)
    \/ \E u \in Registered : handleSubmit(1, u)
    \/ handleSignOut(1)
    \/ \E p \in Pages : Navigate(1, p)
    \/ setPickup(1, StrA)
    \/ setDropoff(1, StrF)
    \/ handleEstimate(1)
    \/ estimateTimeout(1)
    \/ BookNowEnabled(form[1]) /\ handleBooking(1, 1)
    \/ addDocResolved(1)
    \/ addDocRejected(1)
    \/ \E i \in 1..MaxBookings, st \in Statuses, ok \in BOOLEAN :
           handleUpdateStatus(1, i, st, ok)
    \/ onSnapshotNext(1, IdPerm)

Spec == Init /\ [][Next]_vars

\* Two admin sessions.  A rider, u1, has booked SeededDocs rides from the form
\* filled with pickup "A" and dropoff "F"; then the admin account signed in on
\* both sessions and opened the admin panel, and each session's listener is
\* owed its first snapshot.
ReadyForm ==
    LET f1 == [InitForm EXCEPT !.pickup = StrA, !.dropoff = StrF]
        f2 == EstimateForm(f1)
    IN  [f2 EXCEPT !.fareEstimate = Some(ToFixed2(Head(EstimateTimers(f1, <<>>)))),
                   !.isEstimating = FALSE]

SeedDoc(i, u, now) == [id |-> i] @@ newBooking(u, ReadyForm, now)

SignedInHolding(u, page, held) ==
    /\ authUser = [s \in Sessions |-> u]
    /\ authNotify = [s \in Sessions |-> FALSE]
    /\ initialAuthToken = FALSE
    /\ user = [s \in Sessions |-> u]
    /\ isLoading = [s \in Sessions |-> FALSE]
    /\ currentPage = [s \in Sessions |-> page]
    /\ form = [s \in Sessions |-> InitForm]
    /\ timers = [s \in Sessions |-> <<>>]
    /\ pendingAdd = [s \in Sessions |-> Null]
    /\ sub = [s \in Sessions |-> onSnapshot(NoSub, u)]
    /\ snapDue = [s \in Sessions |-> TRUE]
    /\ bookings = [s \in Sessions |-> held]
    /\ isBookingsLoading = [s \in Sessions |-> FALSE]
    /\ lastOp = NoOp

SignedInAs(u, page) == SignedInHolding(u, page, <<>>)

InitAdmins ==
    /\ store = [i \in 1..SeededDocs |-> SeedDoc(i, "u1", 1)]
    /\ SignedInAs("adm", "admin")

NextAdmins ==
    \E s \in Sessions :
        \/ \E i \in 1..SeededDocs, st \in Statuses, ok \in BOOLEAN :
               handleUpdateStatus(s, i, st, ok)
        \/ onSnapshotNext(s, IdPerm)

SpecAdmins == InitAdmins /\ [][NextAdmins]_vars

\* Two admin sessions whose tables still show a booking that has been removed
\* from the collection (by the store's operator: the app deletes nothing); the
\* store owes each listener the snapshot without it.
GoneDoc == SeedDoc(SeededDocs + 1, "u1", 1)

InitGone ==
    /\ store = [i \in 1..SeededDocs |-> SeedDoc(i, "u1", 1)]
    /\ SignedInHolding("adm", "admin", SortBookings(SnapshotDocs(Append(store, GoneDoc))))

NextGone ==
    \E s \in Sessions :
        \/ \E i \in 1..(SeededDocs + 1), st \in Statuses, ok \in BOOLEAN :
               handleUpdateStatus(s, i, st, ok)
        \/ onSnapshotNext(s, IdPerm)

SpecGone == InitGone /\ [][NextGone]_vars

\* Session 1 alone at the booking form: a rider (u1, persisted by an earlier
\* visit) or a visitor who becomes anonymous edits pickup and dropoff, picks
\* among FormVehicles, estimates and books.
FormVehicles == {"Cab", "Bike"}

InitForms == store = <<>> /\ Mounted({"none", "u1"}, {FALSE})

NextForms ==
    \/ \E ok \in BOOLEAN : onAuthStateChanged(1, ok)
    \/ \E p \in Pages : Navigate(1, p)
    \/ \E v \in Locations : setPickup(1, v)
    \/ \E v \in Locations : setDropoff(1, v)
    \/ \E w \in Times : setDateTime(1, w)
    \/ \E ty \in FormVehicles : selectVehicle(1, ty)
    \/ handleEstimate(1)
    \/ estimateTimeout(1)
    \/ BookNowEnabled(form[1]) /\ handleBooking(1, 1)
    \/ addDocResolved(1)
    \/ addDocRejected(1)

SpecForms == InitForms /\ [][NextForms]_vars

\* Session 1 alone at the booking form, the form's submit event reaching
\* handleBooking in any state of the form, also while Book Now is disabled or
\* an input is empty (an event dispatched at the form rather than a click).
InitSubmit == store = <<>> /\ Mounted({"u1"}, {FALSE})

NextSubmit ==
    \/ \E ok \in BOOLEAN : onAuthStateChanged(1, ok)
    \/ \E p \in {"home", "login"} : Navigate(1, p)
    \/ \E v \in {EmptyStr, StrA} : setPickup(1, v)
    \/ \E v \in {EmptyStr, StrA} : setDropoff(1, v)
    \/ selectVehicle(1, "Bike")
    \/ handleEstimate(1)
    \/ estimateTimeout(1)
    \/ handleBooking(1, 1)
    \/ addDocResolved(1)
    \/ addDocRejected(1)

SpecSubmit == InitSubmit /\ [][NextSubmit]_vars

\* Session 1 alone, mounted against a store that already holds ListedDocs
\* bookings of the riders u1 and adm, created at any clock readings: it signs
\* in and out, and the store delivers its documents in any order.
SeededStores ==
    {[i \in 1..ListedDocs |-> SeedDoc(i, owner[i], clock[i])] :
        owner \in [1..ListedDocs -> Registered], clock \in [1..ListedDocs -> 1..MaxClock]}

InitProj == store \in SeededStores /\ Mounted({"none", "u1", "adm"}, {FALSE})

NextProj ==
    \/ \E ok \in BOOLEAN : onAuthStateChanged(1, ok)
    \/ \E u \in Registered : handleSubmit(1, u)
    \/ handleSignOut(1)
    \/ \E p \in Pages : Navigate(1, p)
    \/ \E p \in Permutations(1..Len(store)) : onSnapshotNext(1, p)
    \/ onSnapshotError(1)

SpecProj == InitProj /\ [][NextProj]_vars

\* ------------------------------------------------------------------ claims
Terminal == {"Completed", "Canceled"}

\* C1: once a booking's stored status is Completed or Canceled, no later
\* status-transition request changes it, also when admin sessions act on
\* snapshots that lag behind the store.
C1_TerminalStatusNeverChanges ==
    [][\A i \in DOMAIN store :
           store[i].status \in Terminal => store'[i].status = store[i].status]_vars

\* C2: a transition attempt on a stored Pending booking leaves it Accepted,
\* Canceled or Pending; one on a stored Accepted booking leaves it Completed,
\* Canceled or Accepted.
C2_PostStatesOfPendingAndAccepted ==
    [][\A i \in DOMAIN store :
           /\ store[i].status = "Pending"
                  => store'[i].status \in {"Accepted", "Canceled", "Pending"}
           /\ store[i].status = "Accepted"
                  => store'[i].status \in {"Completed", "Canceled", "Accepted"}]_vars

\* An attempt made from a snapshot that still shows Pending has acted on a
\* booking stored as Accepted.
C2_Witness ==
    /\ lastOp.op = "update"
    /\ lastOp.result = "ok"
    /\ lastOp.prev = "Accepted"
    /\ \E i \in 1..Len(bookings[lastOp.s]) :
           /\ bookings[lastOp.s][i].id = lastOp.id
           /\ bookings[lastOp.s][i].status = "Pending"

\* C3: a transition request whose target equals the booking's stored status
\* fails with InvalidTransition and writes nothing.
C3_SameStatusRequestFails ==
    (lastOp.op = "update" /\ lastOp.target = lastOp.prev)
        => lastOp.result = "InvalidTransition"

\* Some stored booking's status differs between the two states of a step.
StatusChanged == \E i \in DOMAIN store : store'[i].status # store[i].status

\* C4: no action available to an identity without the admin capability (an
\* email other than the admin account's, anonymous, or no identity) changes
\* the status of any booking: every step that changes a stored status is a
\* status update issued from a session whose current identity at the identity
\* provider is the admin account.
C4_OnlyAdminChangesStatus ==
    [][StatusChanged =>
           /\ lastOp'.op = "update"
           /\ authUser[lastOp'.s] # "none"
           /\ Email(authUser[lastOp'.s]) = ADMIN_EMAIL]_vars

\* C5: every stored booking's status is one of Pending, Accepted, Completed,
\* Canceled; creation and status update never write another value.
C5_StatusInEnumeration == \A i \in DOMAIN store : store[i].status \in Statuses

\* Both writers have acted: a created booking has been transitioned.
C5_Witness ==
    /\ lastOp.op = "update"
    /\ lastOp.result = "ok"
    /\ store[lastOp.id].status = "Completed"

\* The fields a status transition must leave alone
Frame(d) ==
    <<d.id, d.userId, d.userEmail, d.pickup, d.dropoff, d.vehicleType, d.distance, d.fare,
      d.dateTime, d.paymentStatus, d.createdAt>>

\* C9: a status transition writes only the status field: every stored booking
\* keeps its id, riderId, riderLabel, pickup, dropoff, vehicleClass, distance,
\* fare, scheduledAt, paymentStatus and createdAt through every step.
C9_TransitionWritesOnlyStatus ==
    [][\A i \in DOMAIN store :
           /\ i \in DOMAIN store'
           /\ Frame(store'[i]) = Frame(store[i])
           /\ DOMAIN store'[i] = DOMAIN store[i]]_vars

\* A status transition has been written to a stored booking.
C9_Witness ==
    /\ lastOp.op = "update"
    /\ lastOp.result = "ok"
    /\ lastOp.target # lastOp.prev
    /\ store[lastOp.id].status = lastOp.target

\* C10: every booking is created with status Pending and paymentStatus
\* Pending, and paymentStatus stays Pending in every reachable state.
C10_PaymentStatusAlwaysPending ==
    /\ \A i \in DOMAIN store : store[i].paymentStatus = "Pending"
    /\ (lastOp.op = "add" /\ lastOp.result = "ok")
           => /\ store[lastOp.id].status = "Pending"
              /\ store[lastOp.id].paymentStatus = "Pending"

\* A booking that was created and then transitioned twice
C10_Witness ==
    /\ Len(store) > 0
    /\ store[1].status = "Completed"
    /\ store[1].paymentStatus = "Pending"

\* The fare of a stored booking, in cents, and its distance, in kilometres
FareCentsOf(d) == d.fare[2].whole * 100 + d.fare[2].frac
KmTimes10Of(d) == d.distance[1].whole * 10 + d.distance[1].frac

\* C6: every booking written by the booking-creation action has
\* fare = baseFare(vehicleClass) + rate(vehicleClass) * distance for the
\* vehicleClass and distance stored in that booking (Cab, 10 km: 20.00).
C6_FareMatchesStoredClassAndDistance ==
    \A i \in DOMAIN store :
        FareCentsOf(store[i]) * 10 =
            VEHICLE_RATES[store[i].vehicleType].base * 10
                + VEHICLE_RATES[store[i].vehicleType].rate * KmTimes10Of(store[i])

\* seq is ordered by createdAt, newest first
NewestFirst(seq) ==
    \A k \in 1..(Len(seq) - 1) : seq[k].createdAt >= seq[k + 1].createdAt

\* How often the document with this id occurs in seq
Occurrences(seq, id) == Cardinality({k \in DOMAIN seq : seq[k].id = id})

\* C7: for every held snapshot and every registered viewing identity X, the
\* rider dashboard lists exactly the snapshot's bookings whose userId is X, no
\* other rider's, newest first; also right after the identity changed while a
\* snapshot obtained under the previous identity is still held.
C7_RiderListIsOwnBookingsNewestFirst ==
    \A s \in Sessions :
        IsSignedIn(user[s]) =>
            /\ \A k \in DOMAIN RiderList(s) :
                   /\ RiderList(s)[k].userId = user[s]
                   /\ \E j \in DOMAIN bookings[s] : bookings[s][j] = RiderList(s)[k]
            /\ \A j \in DOMAIN bookings[s] :
                   Occurrences(RiderList(s), bookings[s][j].id) =
                       IF bookings[s][j].userId = user[s] THEN 1 ELSE 0
            /\ NewestFirst(RiderList(s))

\* The dashboard is shown to a rider who holds a snapshot that was delivered to
\* the listener of another identity and that has a booking of the rider and a
\* booking of somebody else.
C7_Witness ==
    /\ DashboardShown(1)
    /\ lastOp.op = "snapshot"
    /\ lastOp.result = "ok"
    /\ lastOp.key # user[1]
    /\ snapDue[1]
    /\ \E j \in DOMAIN bookings[1] : bookings[1][j].userId = user[1]
    /\ \E j \in DOMAIN bookings[1] : bookings[1][j].userId # user[1]

\* C8: for every snapshot the store delivers, in whatever order, the admin
\* table holds every booking of the snapshot exactly once, none filtered out,
\* newest first.
C8_AdminTableIsSnapshotNewestFirst ==
    (lastOp.op = "snapshot" /\ lastOp.result = "ok") =>
        /\ Len(AdminRows(lastOp.s)) = Len(store)
        /\ \A i \in DOMAIN store :
               /\ Occurrences(AdminRows(lastOp.s), store[i].id) = 1
               /\ \E k \in DOMAIN AdminRows(lastOp.s) :
                      AdminRows(lastOp.s)[k] = store[i] @@ [bookingDate |-> "undefined"]
        /\ NewestFirst(AdminRows(lastOp.s))

\* The admin table is shown after the store delivered an older booking ahead
\* of a newer one.
C8_Witness ==
    /\ AdminTableShown(1)
    /\ lastOp.op = "snapshot"
    /\ lastOp.result = "ok"
    /\ \E k \in 1..(Len(lastOp.docs) - 1) :
           store[lastOp.docs[k]].createdAt < store[lastOp.docs[k + 1]].createdAt

\* C11: when the booking-creation action is invoked while the current identity
\* (the identity provider's) is absent or anonymous, it leaves through the
\* redirect to the login page and writes no booking; every stored booking's
\* userId is the id of a registered, non-anonymous identity.
C11_NoBookingWithoutIdentity ==
    /\ (lastOp.op = "submit" /\ lastOp.key \in {"none", "anon"}) => lastOp.result = "login"
    /\ \A i \in DOMAIN store : store[i].userId \in Uids \ {"anon"}

\* A form with an empty pickup or dropoff
MissingField(f) == f.pickup = EmptyStr \/ f.dropoff = EmptyStr

C13_AtMostOneLiveSubscription ==
    [][\A s \in Sessions :
           /\ Cardinality(sub'[s]) <= 1
           /\ sub'[s] \subseteq {user'[s]}
           /\ bookings'[s] # bookings[s] =>
                  /\ lastOp'.op = "snapshot"
                  /\ lastOp'.result = "ok"
                  /\ lastOp'.s = s
                  /\ lastOp'.key = user[s]]_vars

\* A snapshot was delivered to the listener of u1; the identity then became
\* the anonymous one, whose listener is the live one.
C13_Witness ==
    /\ user[1] = "anon"
    /\ sub[1] = {"anon"}
    /\ lastOp.op = "snapshot"
    /\ lastOp.result = "ok"
    /\ lastOp.key = "u1"
    /\ bookings[1] # <<>>

\* The records of a list, as a set
Records(seq) == {seq[k] : k \in DOMAIN seq}

\* C14: after every snapshot delivery the locally held booking list holds
\* exactly the records of the delivered snapshot, as the store has them now,
\* and nothing retained from an earlier snapshot.
C14_HeldListIsLatestSnapshot ==
    (lastOp.op = "snapshot" /\ lastOp.result = "ok") =>
        /\ Records(bookings[lastOp.s]) = Records(SnapshotDocs(store))
        /\ Len(bookings[lastOp.s]) = Len(store)

\* The session held a snapshot showing a booking as Pending, changed the
\* booking's status, and has received the snapshot after the change.
C14_Witness ==
    /\ lastOp.op = "snapshot"
    /\ lastOp.result = "ok"
    /\ lastOp.s = 1
    /\ Len(store) > 0
    /\ store[1].status # "Pending"

\* C15: when the booking subscription reports a failure, a user-visible error
\* indicator is set for the session (and the view keeps its empty or stale
\* booking list).
C15_SubscriptionFailureIsShown ==
    (lastOp.op = "snapshot" /\ lastOp.result = "error") => ErrorShown(lastOp.s)

\* The status session s shows for the booking with this id ("none" if its
\* snapshot has no such booking)
ShownStatus(s, id) ==
    IF \E k \in DOMAIN bookings[s] : bookings[s][k].id = id
    THEN bookings[s][CHOOSE k \in DOMAIN bookings[s] : bookings[s][k].id = id].status
    ELSE "none"

\* C16: transition requests are applied with no version check: every request
\* the store accepts is written whatever the stored status is, so the later of
\* two writes determines the final status (last-write-wins); with two admin
\* sessions holding the same cached status there is an execution in which both
\* sessions' requests are applied one after the other.
C16_LastWriteWins ==
    (lastOp.op = "update" /\ lastOp.result = "ok") =>
        store[lastOp.id].status = lastOp.target

\* Both sessions show the booking as Pending; session 1 accepted it and, right
\* after, session 2 canceled it: the stored status is Canceled.
C16_Witness ==
    /\ lastOp.op = "update"
    /\ lastOp.result = "ok"
    /\ lastOp.s = 2
    /\ lastOp.after = 1
    /\ lastOp.prev = "Accepted"
    /\ lastOp.target = "Canceled"
    /\ ShownStatus(1, lastOp.id) = "Pending"
    /\ ShownStatus(2, lastOp.id) = "Pending"
    /\ store[lastOp.id].status = "Canceled"

\* C17: a transition request naming a booking id unknown to the store fails:
\* with NotFound when the store is reached (with the transport's error when it
\* is not), which is what the admin is told; no record is created or changed
\* by it.
C17_UnknownIdFailsNotFound ==
    [][(lastOp'.op = "update" /\ lastOp'.id \notin DOMAIN store) =>
           /\ lastOp'.result \in {"NotFound", "error"}
           /\ store' = store]_vars

\* An admin pressed a button of the row of the removed booking and was told
\* NotFound; the store holds what it held.
C17_Witness ==
    /\ lastOp.op = "update"
    /\ lastOp.result = "NotFound"
    /\ lastOp.id = GoneDoc.id
    /\ lastOp.id \notin DOMAIN store
    /\ ShownStatus(lastOp.s, lastOp.id) = "Pending"
    /\ Len(store) = SeededDocs

\* C18: the distance stored in a booking is mockDistance of the pickup and
\* dropoff stored in that booking, also when the rider edits pickup or
\* dropoff between Estimate Fare and Book Now.
C18_DistanceMatchesStoredLocations ==
    \A i \in DOMAIN store :
        store[i].distance = <<mockDistance(store[i].pickup, store[i].dropoff), "km">>

\* The edges of the transition table
TransitionTable ==
    {<<"Pending", "Accepted">>, <<"Pending", "Canceled">>,
     <<"Accepted", "Completed">>, <<"Accepted", "Canceled">>}

\* C19: relative to the status shown in the admin session's held snapshot,
\* every transition request the panel issues is an edge of the transition
\* table: Accepted or Canceled for a booking shown as Pending, Completed or
\* Canceled for one shown as Accepted, none for one shown as Completed or
\* Canceled.
C19_RequestsAreEdgesOfShownStatus ==
    lastOp.op = "update" =>
        <<ShownStatus(lastOp.s, lastOp.id), lastOp.target>> \in TransitionTable

\* A request issued from a row shown as Accepted for a booking the store
\* already holds as Canceled.
C19_Witness ==
    /\ lastOp.op = "update"
    /\ ShownStatus(lastOp.s, lastOp.id) = "Accepted"
    /\ lastOp.prev = "Canceled"
    /\ lastOp.target = "Completed"

\* A booking document that carries a fare and a distance
HasFareAndDistance(d) == "text" \notin DOMAIN d.fare[2] /\ "text" \notin DOMAIN d.distance[1]

\* C20: handleBooking writes a booking only when a fare estimate is present
\* at the time of submission: called with fareEstimate null it hands nothing
\* to the store, and every booking handed to the store or stored carries a
\* fare and a distance.
C20_BookingNeedsFareEstimate ==
    [][/\ \A i \in DOMAIN store' : HasFareAndDistance(store'[i])
       /\ \A s \in Sessions :
              /\ ~IsNull(pendingAdd'[s]) => HasFareAndDistance(Val(pendingAdd'[s]).doc)
              /\ (lastOp'.op = "submit" /\ lastOp'.s = s /\ IsNull(form[s].fareEstimate)) =>
                     /\ store' = store
                     /\ IsNull(pendingAdd[s]) => IsNull(pendingAdd'[s])]_vars

\* handleBooking was called with no fare estimate and started one: the form
\* is estimating, a timer is pending, and nothing was handed to the store.
C20_Witness ==
    /\ lastOp.op = "submit"
    /\ lastOp.result = "estimate"
    /\ IsNull(form[1].fareEstimate)
    /\ form[1].isEstimating
    /\ timers[1] # <<>>
    /\ IsNull(pendingAdd[1])
    /\ store = <<>>

\* The fields of the booking form that handleBooking clears after a write.
BookingFields(f) == <<f.pickup, f.dropoff, f.fareEstimate, f.distance>>

\* The step is the settlement of the addDoc awaited by session s.
AddSettled(s) == lastOp' # lastOp /\ lastOp'.op = "add" /\ lastOp'.s = s

C22_CompletedWasAccepted ==
    \A i \in 1..SeededDocs :
        [](store[i].status # "Accepted") => [](store[i].status # "Completed")

\* Completed was written from a row that still showed Accepted while the
\* stored status was already Canceled.
C22_Witness ==
    /\ lastOp.op = "update"
    /\ lastOp.result = "ok"
    /\ lastOp.target = "Completed"
    /\ lastOp.prev = "Canceled"
    /\ store[lastOp.id].status = "Completed"

\* C23: whenever the admin table offers its transition buttons (the locally
\* held user has the admin email), the identity provider's current identity is
\* that admin account; after a sign-out the locally held user is no longer the
\* admin.  Stated for the sessions whose auth listener has handled the
\* provider's last notification, the follow-up sign-in it attempts included.
C23_AdminPanelMeansAdminIdentity ==
    \A s \in Sessions :
        (AdminTableShown(s) /\ ~authNotify[s]) => authUser[s] = user[s]

\* The listener of session s is live and has delivered neither a snapshot nor
\* an error.  (Where nothing is written to the store, a snapshot is due only
\* to a listener that has not delivered its first one.)
FirstSnapshotPending(s) == sub[s] # {} /\ snapDue[s]

\* UserDashboardView presents 'You have no bookings yet.'
NoBookingsShown(s) == DashboardShown(s) /\ ~isBookingsLoading[s] /\ RiderList(s) = <<>>

\* C24: isBookingsLoading is true while the live subscription has delivered
\* neither a snapshot nor an error, so the dashboard does not present the
\* empty 'no bookings' state while the first snapshot is pending.
C24_LoadingUntilFirstSnapshot ==
    \A s \in Sessions :
        FirstSnapshotPending(s) => (isBookingsLoading[s] /\ ~NoBookingsShown(s))

====
